---- MODULE Spec2Model ----
(***************************************************************************)
(* A model of src/index.ts: class ArchiveSearcher.  Five fetchers are      *)
(* started by searchAll and run interleaved on one event loop; each        *)
(* suspends at its HTTP request and at its pacing delay.  Strings that the *)
(* code inspects character by character (titles, free text, years) are     *)
(* sequences of one-character strings; URLs are records of their parts.    *)
(***************************************************************************)
EXTENDS Integers, Sequences, FiniteSets, TLC

VARIABLES
    phase,          \* searchAll: "constructed", "awaiting", "returned"
    pc,             \* per fetcher: "idle", "request", "delay", "done"
    unit,           \* per fetcher: index of the unit its loop is at
    requests,       \* per fetcher, per unit: "none", "pending", "ok", "failed"
    results,        \* per fetcher: its local results array
    settled,        \* per fetcher: how its promise settled ("pending", "resolved", "rejected")
    returned,       \* what searchAll resolved with
    logged,         \* the messages given to console.error
    call            \* a direct call of one of the pure helpers

vars == <<phase, pc, unit, requests, results, settled, returned, logged, call>>

(***************************************************************************)
(* Characters and strings                                                  *)
(***************************************************************************)
Upper == <<"A", "B", "C", "D", "E", "F", "G", "H", "I", "J", "K", "L", "M",
           "N", "O", "P", "Q", "R", "S", "T", "U", "V", "W", "X", "Y", "Z">>
Lower == <<"a", "b", "c", "d", "e", "f", "g", "h", "i", "j", "k", "l", "m",
           "n", "o", "p", "q", "r", "s", "t", "u", "v", "w", "x", "y", "z">>
DigitChars == <<"0", "1", "2", "3", "4", "5", "6", "7", "8", "9">>

Range(s) == {s[i] : i \in 1..Len(s)}

Digits == Range(DigitChars)

\* the regular expression class \d
IsDigit(c) == c \in Digits

WordChars == Range(Upper) \cup Range(Lower) \cup Digits \cup {"_"}

\* the regular expression class \w
IsWordChar(c) == c \in WordChars

\* the regular expression class \s
IsSpace(c) == c \in {" ", "\t", "\n"}

\* the value JavaScript calls undefined, where a string was expected
undefined == <<"<undefined>">>

\* JavaScript truthiness of an optional string
Truthy(s) == s # undefined /\ s # <<>>

\* a || b on optional strings
OrElse(a, b) == IF Truthy(a) THEN a ELSE b

LowerOf == [c \in Range(Upper) |-> Lower[CHOOSE i \in 1..Len(Upper) : Upper[i] = c]]

ToLowerChar(c) == IF c \in DOMAIN LowerOf THEN LowerOf[c] ELSE c

\* String.prototype.toLowerCase
ToLowerCase(s) == [i \in 1..Len(s) |-> ToLowerChar(s[i])]

\* s.replace(/[^\w\s]/g, ''): scan left to right, drop each matching character
RECURSIVE StripNonWord(_)
StripNonWord(s) ==
    IF s = <<>> THEN <<>>
    ELSE IF IsWordChar(Head(s)) \/ IsSpace(Head(s))
         THEN <<Head(s)>> \o StripNonWord(Tail(s))
         ELSE StripNonWord(Tail(s))

\* String.prototype.includes
Includes(s, t) ==
    \E i \in 0..(Len(s) - Len(t)) : SubSeq(s, i + 1, i + Len(t)) = t

\* String.prototype.trim
RECURSIVE TrimStart(_)
TrimStart(s) == IF s # <<>> /\ IsSpace(Head(s)) THEN TrimStart(Tail(s)) ELSE s

RECURSIVE TrimEnd(_)
TrimEnd(s) ==
    IF s # <<>> /\ IsSpace(s[Len(s)]) THEN TrimEnd(SubSeq(s, 1, Len(s) - 1)) ELSE s

Trim(s) == TrimEnd(TrimStart(s))

\* String.prototype.slice(0, n)
SliceTo(s, n) == SubSeq(s, 1, IF Len(s) < n THEN Len(s) ELSE n)

(***************************************************************************)
(* Numbers                                                                 *)
(***************************************************************************)
\* the value NaN
NaN == -1

DigitValue == [c \in Digits |-> (CHOOSE i \in 1..10 : DigitChars[i] = c) - 1]

DigitVal(c) == DigitValue[c]

RECURSIVE ParseDigits(_, _)
ParseDigits(s, acc) ==
    IF s = <<>> \/ ~IsDigit(Head(s)) THEN acc
    ELSE ParseDigits(Tail(s), acc * 10 + DigitVal(Head(s)))

\* parseInt(s): skip leading white space, read the leading run of digits
ParseInt(s) ==
    LET t == TrimStart(s)
    IN  IF t = <<>> \/ ~IsDigit(Head(t)) THEN NaN ELSE ParseDigits(t, 0)

RECURSIVE NatToString(_)
NatToString(n) ==
    IF n < 10 THEN <<DigitChars[n + 1]>>
    ELSE NatToString(n \div 10) \o <<DigitChars[(n % 10) + 1]>>

\* Number.prototype.toString
NumberToString(n) == IF n = NaN THEN <<"N", "a", "N">> ELSE NatToString(n)

(***************************************************************************)
(* verifyMagazineIdentity, extractYear, isYearInRange                      *)
(***************************************************************************)
Unknown == <<"U", "n", "k", "n", "o", "w", "n">>

YearMin == 2000
YearMax == 2025

verifyMagazineIdentity_noLowerCase(title, target) ==
    IF ~Truthy(title) THEN FALSE
    ELSE Includes(StripNonWord(title), StripNonWord(target))

verifyMagazineIdentity(title, target) ==
    IF ~Truthy(title) THEN FALSE
    ELSE LET cleanTitle  == StripNonWord(ToLowerCase(title))
             cleanTarget == StripNonWord(ToLowerCase(target))
         IN  cleanTitle = cleanTarget \/ Includes(cleanTitle, cleanTarget)

isYearInRange_noUpper(year) ==
    LET yearNum == ParseInt(year)
    IN  yearNum # NaN /\ yearNum >= YearMin

isYearInRange(year) ==
    LET yearNum == ParseInt(year)
    IN  yearNum # NaN /\ yearNum >= YearMin /\ yearNum <= YearMax

\* \b at position i of text (between text[i-1] and text[i])
WordBoundary(text, i) ==
    LET before == i > 1 /\ IsWordChar(text[i - 1])
        after  == i <= Len(text) /\ IsWordChar(text[i])
    IN  before # after

\* the places where /\b20\d{2}\b/ matches
Matches20xx(text) ==
    {i \in 1..(Len(text) - 3) :
        /\ WordBoundary(text, i)
        /\ text[i] = "2" /\ text[i + 1] = "0"
        /\ IsDigit(text[i + 2]) /\ IsDigit(text[i + 3])
        /\ WordBoundary(text, i + 4)}

\* the places where /\b\d{4}\b/ matches
Matches4Digit(text) ==
    {i \in 1..(Len(text) - 3) :
        /\ WordBoundary(text, i)
        /\ \A k \in 0..3 : IsDigit(text[i + k])
        /\ WordBoundary(text, i + 4)}

Min(S) == CHOOSE x \in S : \A y \in S : x <= y

\* text.match(pattern) of a pattern without the g flag: the leftmost match or none
FirstMatch(text, places) ==
    IF places = {} THEN undefined
    ELSE SubSeq(text, Min(places), Min(places) + 3)

yearPatterns(text) == <<Matches20xx(text), Matches4Digit(text)>>

RECURSIVE extractYearFrom(_, _)
extractYearFrom(text, k) ==
    IF k > Len(yearPatterns(text)) THEN Unknown
    ELSE LET match == FirstMatch(text, yearPatterns(text)[k])
         IN  IF match # undefined
                /\ isYearInRange(NumberToString(ParseInt(match)))
             THEN NumberToString(ParseInt(match))
             ELSE extractYearFrom(text, k + 1)

extractYear(text) == extractYearFrom(text, 1)

(***************************************************************************)
(* URLs.  A URL string is held as its parts: "https://h/a/b" is            *)
(* [scheme "https", host "h", rooted TRUE, segs <<"a","b">>]; "/a" has no  *)
(* scheme and no host; "" is EmptyUrl.                                     *)
(***************************************************************************)
Url(scheme, host, rooted, segs) ==
    [scheme |-> scheme, host |-> host, rooted |-> rooted, segs |-> segs]

\* the string '' (also what a missing href or previewLink coalesces to)
EmptyUrl == Url("", "", FALSE, <<>>)

\* a string that names a scheme and a host
IsAbsoluteUrl(u) == u.scheme # "" /\ u.host # ""

\* new URL(href, base) throws TypeError: a scheme followed by no host
UrlThrows(href) == href.scheme # "" /\ href.host = ""

\* new URL(href, base).toString() for an href that parses
ResolveUrl(href, base) ==
    IF href.scheme # "" THEN Url(href.scheme, href.host, TRUE, href.segs)
    ELSE IF href.host # "" THEN Url(base.scheme, href.host, TRUE, href.segs)
    ELSE IF href.rooted THEN Url(base.scheme, base.host, TRUE, href.segs)
    ELSE IF href.segs = <<>> THEN base
    ELSE Url(base.scheme, base.host, TRUE,
             SubSeq(base.segs, 1, Len(base.segs) - 1) \o href.segs)

(***************************************************************************)
(* new Date(created_utc * 1000).getFullYear(), with the process in UTC     *)
(***************************************************************************)
IsLeapYear(y) == (y % 4 = 0 /\ y % 100 # 0) \/ y % 400 = 0

DaysInYear(y) == IF IsLeapYear(y) THEN 366 ELSE 365

RECURSIVE YearOfDay(_, _)
YearOfDay(y, d) ==
    IF d < DaysInYear(y) THEN y ELSE YearOfDay(y + 1, d - DaysInYear(y))

\* created_utc is in seconds; the milliseconds created_utc * 1000 are
\* 86400000 to the day, that is, created_utc \div 86400 days since 1970
GetFullYear(created_utc) ==
    IF created_utc = NaN THEN NaN ELSE YearOfDay(1970, created_utc \div 86400)

(***************************************************************************)
(* SearchResult and the fixed lists of the fetchers                        *)
(***************************************************************************)
SearchResult(source, title, year, url, description) ==
    [source |-> source, title |-> title, year |-> year, url |-> url,
     description |-> description]

subreddits == <<"magazines", "archival", "vintageculture", "OldSchoolCool">>

searchEngines ==
    << [name |-> "Google", url |-> Url("https", "www.google.com", TRUE, <<"search">>)],
       [name |-> "Bing",   url |-> Url("https", "www.bing.com", TRUE, <<"search">>)] >>

libraries ==
    << [name |-> "HathiTrust",
        url  |-> Url("https", "babel.hathitrust.org", TRUE, <<"cgi", "ls">>)],
       [name |-> "Internet Archive",
        url  |-> Url("https", "archive.org", TRUE, <<"search.php">>)],
       [name |-> "Digital Public Library of America",
        url  |-> Url("https", "dp.la", TRUE, <<"search">>)],
       [name |-> "WorldCat",
        url  |-> Url("https", "www.worldcat.org", TRUE, <<"search">>)] >>

\* what a try block did: whether it threw, and what it had pushed to results
Completed(rs) == [threw |-> FALSE, pushed |-> rs]
Thrown(rs)    == [threw |-> TRUE,  pushed |-> rs]

(***************************************************************************)
(* The fetchers: what each does with one response.  A response is          *)
(* [kind |-> "error"] with unused data when client.get rejects (network    *)
(* failure, non-2xx status, timeout), else [kind |-> "ok", data |-> body]. *)
(***************************************************************************)

ArchiveOrgDocs_noVerify(docs, target, acc) ==
    acc \o [i \in 1..Len(docs) |->
               SearchResult("archive.org", docs[i].title, OrElse(docs[i].year, Unknown),
                   Url("https", "archive.org", TRUE, <<"details", docs[i].identifier>>),
                   OrElse(docs[i].description, <<>>))]

\* searchArchiveOrg: the loop over data.response.docs
RECURSIVE ArchiveOrgDocs(_, _, _)
ArchiveOrgDocs(docs, target, acc) ==
    IF docs = <<>> THEN acc
    ELSE LET item == Head(docs)
         IN  IF verifyMagazineIdentity(item.title, target)
             THEN ArchiveOrgDocs(Tail(docs), target,
                      Append(acc, SearchResult("archive.org", item.title,
                          OrElse(item.year, Unknown),
                          Url("https", "archive.org", TRUE, <<"details", item.identifier>>),
                          OrElse(item.description, <<>>))))
             ELSE ArchiveOrgDocs(Tail(docs), target, acc)

\* searchArchiveOrg: the body of its try block
ArchiveOrgTry(resp, target) ==
    IF resp.kind = "error" THEN Thrown(<<>>)
    ELSE IF resp.data.isNull THEN Thrown(<<>>)
    ELSE IF ~resp.data.hasDocs THEN Completed(<<>>)
    ELSE Completed(ArchiveOrgDocs(resp.data.docs, target, <<>>))

\* a || b on optional URL strings
UrlOrElse(a, b) == IF a # EmptyUrl THEN a ELSE b

RECURSIVE GoogleBooksItems_keepUnknown(_, _, _)
GoogleBooksItems_keepUnknown(items, target, acc) ==
    IF items = <<>> THEN acc
    ELSE LET item == Head(items)
             year == extractYear(OrElse(item.publishedDate, <<>>))
         IN  IF /\ item.hasVolumeInfo
                /\ Truthy(item.title)
                /\ verifyMagazineIdentity(item.title, target)
             THEN GoogleBooksItems_keepUnknown(Tail(items), target,
                      Append(acc, SearchResult("google_books", item.title, year,
                          UrlOrElse(item.previewLink, EmptyUrl),
                          OrElse(item.description, <<>>))))
             ELSE GoogleBooksItems_keepUnknown(Tail(items), target, acc)

\* searchGoogleBooks: the loop over data.items
RECURSIVE GoogleBooksItems(_, _, _)
GoogleBooksItems(items, target, acc) ==
    IF items = <<>> THEN acc
    ELSE LET item == Head(items)
             year == extractYear(OrElse(item.publishedDate, <<>>))
         IN  IF /\ item.hasVolumeInfo
                /\ Truthy(item.title)
                /\ year # Unknown
                /\ verifyMagazineIdentity(item.title, target)
             THEN GoogleBooksItems(Tail(items), target,
                      Append(acc, SearchResult("google_books", item.title, year,
                          UrlOrElse(item.previewLink, EmptyUrl),
                          OrElse(item.description, <<>>))))
             ELSE GoogleBooksItems(Tail(items), target, acc)

\* searchGoogleBooks: the body of its try block
GoogleBooksTry(resp, target) ==
    IF resp.kind = "error" THEN Thrown(<<>>)
    ELSE IF resp.data.isNull THEN Thrown(<<>>)
    ELSE IF ~resp.data.hasItems THEN Completed(<<>>)
    ELSE Completed(GoogleBooksItems(resp.data.items, target, <<>>))

\* searchRedditArchives: the loop over data.data.children, pushing to results;
\* reading post.data.title of a child without data throws
RECURSIVE RedditChildren(_, _, _, _)
RedditChildren(children, subreddit, target, acc) ==
    IF children = <<>> THEN Completed(acc)
    ELSE LET post == Head(children)
         IN  IF ~post.hasData THEN Thrown(acc)
             ELSE IF verifyMagazineIdentity(post.title, target)
             THEN RedditChildren(Tail(children), subreddit, target,
                      Append(acc, SearchResult("reddit/r/" \o subreddit, post.title,
                          NumberToString(GetFullYear(post.created_utc)),
                          Url("https", "reddit.com", TRUE, post.permalink),
                          SliceTo(OrElse(post.selftext, <<>>), 200))))
             ELSE RedditChildren(Tail(children), subreddit, target, acc)

\* searchRedditArchives: the try block of one subreddit, up to the delay
RedditTry(resp, subreddit, target) ==
    IF resp.kind = "error" THEN Thrown(<<>>)
    ELSE IF resp.data.isNull THEN Thrown(<<>>)
    ELSE IF ~resp.data.hasChildren THEN Completed(<<>>)
    ELSE RedditChildren(resp.data.children, subreddit, target, <<>>)

\* searchGeneralWeb: the .each callback over the containers of one engine
RECURSIVE GeneralWebElements(_, _, _, _)
GeneralWebElements(elements, engine, target, acc) ==
    IF elements = <<>> THEN Completed(acc)
    ELSE LET element     == Head(elements)
             title       == Trim(element.title)
             url         == element.href
             description == Trim(element.description)
         IN  IF Truthy(title) /\ url # EmptyUrl /\ verifyMagazineIdentity(title, target)
             THEN GeneralWebElements(Tail(elements), engine, target,
                      Append(acc, SearchResult(engine.name, title,
                          extractYear(title \o <<" ">> \o description),
                          url, description)))
             ELSE GeneralWebElements(Tail(elements), engine, target, acc)

\* searchGeneralWeb: the try block of one engine, up to the delay
GeneralWebTry(resp, engine, target) ==
    IF resp.kind = "error" THEN Thrown(<<>>)
    ELSE GeneralWebElements(resp.data.elements, engine, target, <<>>)

\* $(element).text(): the text of all that the container holds
ElementText(element) ==
    element.title \o <<" ">> \o element.date \o <<" ">> \o element.description

\* searchDigitalLibraries: the .each callback over the containers of one site;
\* new URL throws on an href it cannot parse, after the earlier pushes
RECURSIVE DigitalLibraryElements(_, _, _, _)
DigitalLibraryElements(elements, library, target, acc) ==
    IF elements = <<>> THEN Completed(acc)
    ELSE LET element == Head(elements)
             title   == Trim(element.title)
             href    == UrlOrElse(element.href, EmptyUrl)
         IN  IF Truthy(title) /\ verifyMagazineIdentity(title, target)
             THEN IF UrlThrows(href) THEN Thrown(acc)
                  ELSE DigitalLibraryElements(Tail(elements), library, target,
                           Append(acc, SearchResult(library.name, title,
                               extractYear(ElementText(element)),
                               ResolveUrl(href, library.url),
                               Trim(element.description))))
             ELSE DigitalLibraryElements(Tail(elements), library, target, acc)

\* searchDigitalLibraries: the try block of one site, up to the delay
DigitalLibrariesTry(resp, library, target) ==
    IF resp.kind = "error" THEN Thrown(<<>>)
    ELSE DigitalLibraryElements(resp.data.elements, library, target, <<>>)

(***************************************************************************)
(* deduplicateResults and searchAll                                        *)
(***************************************************************************)
Urls(rs) == {rs[i].url : i \in 1..Len(rs)}

\* results.filter with the seen set
RECURSIVE DedupFrom(_, _)
DedupFrom(rs, seen) ==
    IF rs = <<>> THEN <<>>
    ELSE IF Head(rs).url \in seen THEN DedupFrom(Tail(rs), seen)
    ELSE <<Head(rs)>> \o DedupFrom(Tail(rs), seen \cup {Head(rs).url})

deduplicateResults_keepAll(rs) == rs

deduplicateResults_blankDescription(rs) ==
    [i \in 1..Len(DedupFrom(rs, {})) |->
        [DedupFrom(rs, {})[i] EXCEPT !.description = <<>>]]

deduplicateResults(rs) == DedupFrom(rs, {})

searchMethods ==
    <<"searchArchiveOrg", "searchGoogleBooks", "searchRedditArchives",
      "searchDigitalLibraries", "searchGeneralWeb">>

Fetchers == Range(searchMethods)

\* how many requests a fetcher makes: one, or one per entry of its list
NumUnits(f) ==
    CASE f = "searchRedditArchives"   -> Len(subreddits)
      [] f = "searchDigitalLibraries" -> Len(libraries)
      [] f = "searchGeneralWeb"       -> Len(searchEngines)
      [] OTHER                        -> 1

Flat_reversed(rs, k) ==
    rs[searchMethods[5]] \o rs[searchMethods[4]] \o rs[searchMethods[3]]
        \o rs[searchMethods[2]] \o rs[searchMethods[1]]

\* results.flat() of the array Promise.all resolves with: in searchMethods order
RECURSIVE Flat(_, _)
Flat(rs, k) ==
    IF k > Len(searchMethods) THEN <<>>
    ELSE rs[searchMethods[k]] \o Flat(rs, k + 1)

(***************************************************************************)
(* What the sources may answer.  The name searched for is "Wm".            *)
(***************************************************************************)
Wm == <<"W", "m">>

\* ArchiveSearcher.magazine_name: readonly, set by the constructor
magazine_name == Wm

Failed(d) == [kind |-> "error", data |-> d]
Ok(d)     == [kind |-> "ok", data |-> d]

ArchiveDoc(identifier, title, year, description) ==
    [identifier |-> identifier, title |-> title, year |-> year,
     description |-> description]

ArchiveData(isNull, hasDocs, docs) ==
    [isNull |-> isNull, hasDocs |-> hasDocs, docs |-> docs]

\* archive.org: the request fails; the body is null; or it answers docs with
\* a match, a stranger, a second match of the same identifier without a year,
\* and a match of 1985
ArchiveOrgResponses ==
    { Failed(ArchiveData(TRUE, FALSE, <<>>)),
      Ok(ArchiveData(TRUE, FALSE, <<>>)),
      Ok(ArchiveData(FALSE, TRUE,
          << ArchiveDoc("wm12", Wm, <<"2", "0", "1", "2">>, <<"d">>),
             ArchiveDoc("ut", <<"X", "y">>, <<"2", "0", "1", "2">>, undefined),
             ArchiveDoc("wm12", <<"w", "m", "!">>, undefined, undefined),
             ArchiveDoc("wm85", <<"W", "M", "-", "8", "5">>,
                        <<"1", "9", "8", "5">>, undefined) >>)) }

Volume(hasVolumeInfo, title, publishedDate, previewLink, description) ==
    [hasVolumeInfo |-> hasVolumeInfo, title |-> title,
     publishedDate |-> publishedDate, previewLink |-> previewLink,
     description |-> description]

BooksData(isNull, hasItems, items) ==
    [isNull |-> isNull, hasItems |-> hasItems, items |-> items]

\* Google Books: the request fails, or it answers a match of 2015, one without
\* a date, an item without volumeInfo, one of 1998, a match without a preview
\* link, and one whose link is the archive.org page of wm12
GoogleBooksResponses ==
    { Failed(BooksData(TRUE, FALSE, <<>>)),
      Ok(BooksData(FALSE, TRUE,
          << Volume(TRUE, Wm, <<"2", "0", "1", "5", "-", "0", "3">>,
                    Url("https", "books.google.com", TRUE, <<"books">>), <<"d">>),
             Volume(TRUE, Wm, undefined,
                    Url("https", "books.google.com", TRUE, <<"nodate">>), undefined),
             Volume(FALSE, undefined, undefined, EmptyUrl, undefined),
             Volume(TRUE, Wm, <<"1", "9", "9", "8">>,
                    Url("https", "books.google.com", TRUE, <<"old">>), undefined),
             Volume(TRUE, <<"W", "m", " ", "2">>, <<"2", "0", "1", "5">>,
                    EmptyUrl, undefined),
             Volume(TRUE, <<"T", "h", "e", " ", "W", "m">>, <<"2", "0", "1", "2">>,
                    Url("https", "archive.org", TRUE, <<"details", "wm12">>),
                    undefined) >>)) }

Post(hasData, title, created_utc, permalink, selftext) ==
    [hasData |-> hasData, title |-> title, created_utc |-> created_utc,
     permalink |-> permalink, selftext |-> selftext]

RedditData(isNull, hasChildren, children) ==
    [isNull |-> isNull, hasChildren |-> hasChildren, children |-> children]

\* 2015-06-01, 2026-03-01 and 1999-12-31 in seconds since 1970
Utc2015 == 16587 * 86400
Utc2026 == 20513 * 86400
Utc1999 == 10956 * 86400 + 86399

\* Reddit, by subreddit: a post of 2015; a stranger and a post of 2026 with the
\* permalink of the first; a post of 1999 followed by a child without data;
\* a listing without children
RedditOk(i) ==
    CASE i = 1 -> RedditData(FALSE, TRUE,
                     << Post(TRUE, Wm, Utc2015, <<"r", "c1">>, <<"s">>) >>)
      [] i = 2 -> RedditData(FALSE, TRUE,
                     << Post(TRUE, <<"X", "y">>, Utc2015, <<"r", "c2">>, undefined),
                        Post(TRUE, <<"w", "m", "?">>, Utc2026, <<"r", "c1">>, undefined) >>)
      [] i = 3 -> RedditData(FALSE, TRUE,
                     << Post(TRUE, Wm, Utc1999, <<"r", "c3">>, undefined),
                        Post(FALSE, undefined, NaN, <<>>, undefined) >>)
      [] OTHER -> RedditData(FALSE, FALSE, <<>>)

RedditResponses(i) == { Failed(RedditData(TRUE, FALSE, <<>>)), Ok(RedditOk(i)) }

Element(title, date, description, href) ==
    [title |-> title, date |-> date, description |-> description, href |-> href]

Html(elements) == [elements |-> elements]

\* the search engines: Google answers a match with a relative link and a match
\* without a link; Bing a match whose text holds 2030 before 2015 and whose
\* link is the archive.org page of wm12
GeneralWebOk(i) ==
    CASE i = 1 -> Html(<< Element(<<"W", "m", " ", "2", "0", "1", "5">>, <<>>, <<"d">>,
                                  Url("", "", TRUE, <<"url">>)),
                          Element(Wm, <<>>, <<>>, EmptyUrl) >>)
      [] OTHER -> Html(<< Element(<<" ", "W", "m", " ">>, <<>>,
                                  <<"2", "0", "3", "0", " ", "2", "0", "1", "5">>,
                                  Url("https", "archive.org", TRUE, <<"details", "wm12">>)) >>)

GeneralWebResponses(i) == { Failed(Html(<<>>)), Ok(GeneralWebOk(i)) }

\* the library sites: a match of 2015 with a rooted link; a match without a
\* year whose absolute link is the archive.org page of wm12; a match without
\* a link followed by one whose link cannot be parsed; a stranger and an
\* element without title
DigitalLibrariesOk(i) ==
    CASE i = 1 -> Html(<< Element(<<" ", "W", "m">>, <<"2", "0", "1", "5">>, <<"d">>,
                                  Url("", "", TRUE, <<"rec", "1">>)) >>)
      [] i = 2 -> Html(<< Element(Wm, <<>>, <<>>,
                                  Url("https", "archive.org", TRUE, <<"details", "wm12">>)) >>)
      [] i = 3 -> Html(<< Element(Wm, <<"1", "9", "9", "8">>, <<>>, EmptyUrl),
                          Element(Wm, <<>>, <<>>, Url("https", "", FALSE, <<>>)) >>)
      [] OTHER -> Html(<< Element(<<"X", "y">>, <<>>, <<>>, Url("", "", FALSE, <<"x">>)),
                          Element(<<" ">>, <<>>, <<>>, EmptyUrl) >>)

DigitalLibrariesResponses(i) == { Failed(Html(<<>>)), Ok(DigitalLibrariesOk(i)) }

(***************************************************************************)
(* What each try block does with each answer, for the name searched for    *)
(***************************************************************************)
ArchiveOrgOutcome ==
    [resp \in ArchiveOrgResponses |-> ArchiveOrgTry(resp, magazine_name)]

GoogleBooksOutcome ==
    [resp \in GoogleBooksResponses |-> GoogleBooksTry(resp, magazine_name)]

RedditOutcome ==
    [i \in 1..Len(subreddits) |->
        [resp \in RedditResponses(i) |-> RedditTry(resp, subreddits[i], magazine_name)]]

GeneralWebOutcome ==
    [i \in 1..Len(searchEngines) |->
        [resp \in GeneralWebResponses(i) |->
            GeneralWebTry(resp, searchEngines[i], magazine_name)]]

DigitalLibrariesOutcome ==
    [i \in 1..Len(libraries) |->
        [resp \in DigitalLibrariesResponses(i) |->
            DigitalLibrariesTry(resp, libraries[i], magazine_name)]]

(***************************************************************************)
(* The state machine                                                       *)
(***************************************************************************)
NoCall == [fn |-> "none", arg |-> <<>>, done |-> FALSE, ret |-> <<>>]

\* new ArchiveSearcher(name): nothing requested yet
Constructed ==
    /\ phase = "constructed"
    /\ pc = [f \in Fetchers |-> "idle"]
    /\ unit = [f \in Fetchers |-> 0]
    /\ requests = [f \in Fetchers |-> [i \in 1..NumUnits(f) |-> "none"]]
    /\ results = [f \in Fetchers |-> <<>>]
    /\ settled = [f \in Fetchers |-> "pending"]
    /\ returned = <<>>
    /\ logged = {}

Init == Constructed /\ call = NoCall

\* the requests a fetcher has out when it first suspends
FirstRequests_allAtOnce(f) == [i \in 1..NumUnits(f) |-> "pending"]

FirstRequests(f) == [i \in 1..NumUnits(f) |-> IF i = 1 THEN "pending" ELSE "none"]

\* searchAll up to its await: searchMethods.map(method => method()) runs each
\* fetcher up to its first client.get
SearchAllStart ==
    /\ phase = "constructed"
    /\ phase' = "awaiting"
    /\ pc' = [f \in Fetchers |-> "request"]
    /\ unit' = [f \in Fetchers |-> 1]
    /\ requests' = [f \in Fetchers |-> FirstRequests(f)]
    /\ UNCHANGED <<results, settled, returned, logged, call>>

\* what a fetcher's promise settles with, given what its try block left
CatchAll_rethrow(t) ==
    IF t.threw THEN [status |-> "rejected", value |-> <<>>]
    ELSE [status |-> "resolved", value |-> t.pushed]

CatchAll(t) ==
    IF t.threw THEN [status |-> "resolved", value |-> <<>>]
    ELSE [status |-> "resolved", value |-> t.pushed]

Status(resp) == IF resp.kind = "error" THEN "failed" ELSE "ok"

\* a fetcher of one request: the continuation of its await client.get
SingleResponse(f, resp, t, message) ==
    /\ phase = "awaiting"
    /\ pc[f] = "request"
    /\ requests' = [requests EXCEPT ![f][unit[f]] = Status(resp)]
    /\ results' = [results EXCEPT ![f] = CatchAll(t).value]
    /\ settled' = [settled EXCEPT ![f] = CatchAll(t).status]
    /\ logged' = IF t.threw THEN logged \cup {message} ELSE logged
    /\ pc' = [pc EXCEPT ![f] = "done"]
    /\ UNCHANGED <<phase, unit, returned, call>>

ArchiveOrgResponse ==
    /\ pc["searchArchiveOrg"] = "request"
    /\ \E resp \in ArchiveOrgResponses :
        SingleResponse("searchArchiveOrg", resp, ArchiveOrgOutcome[resp],
                       "Error searching archive.org:")

GoogleBooksResponse ==
    /\ pc["searchGoogleBooks"] = "request"
    /\ \E resp \in GoogleBooksResponses :
        SingleResponse("searchGoogleBooks", resp, GoogleBooksOutcome[resp],
                       "Error searching Google Books:")

\* the for loop of a fetcher goes to its next entry and requests it, or ends
\* and the fetcher returns results
NextIteration(f, reqs) ==
    IF unit[f] < NumUnits(f)
    THEN /\ pc' = [pc EXCEPT ![f] = "request"]
         /\ unit' = [unit EXCEPT ![f] = unit[f] + 1]
         /\ requests' = [reqs EXCEPT ![f][unit[f] + 1] = "pending"]
         /\ UNCHANGED settled
    ELSE /\ pc' = [pc EXCEPT ![f] = "done"]
         /\ requests' = reqs
         /\ settled' = [settled EXCEPT ![f] = "resolved"]
         /\ UNCHANGED unit

\* after the try block of one iteration: the catch logs and the loop goes on
\* at once; without a throw the fetcher is now awaiting its setTimeout
AfterTry_rethrow(f, reqs, t, message) ==
    IF t.threw
    THEN /\ pc' = [pc EXCEPT ![f] = "done"]
         /\ requests' = reqs
         /\ settled' = [settled EXCEPT ![f] = "rejected"]
         /\ UNCHANGED <<unit, logged>>
    ELSE /\ pc' = [pc EXCEPT ![f] = "delay"]
         /\ requests' = reqs
         /\ UNCHANGED <<unit, settled, logged>>

AfterTry_retry(f, reqs, t, message) ==
    IF t.threw
    THEN /\ logged' = logged \cup {message}
         /\ requests' = [reqs EXCEPT ![f][unit[f]] = "pending"]
         /\ UNCHANGED <<pc, unit, settled>>
    ELSE /\ pc' = [pc EXCEPT ![f] = "delay"]
         /\ requests' = reqs
         /\ UNCHANGED <<unit, settled, logged>>

AfterTry(f, reqs, t, message) ==
    IF t.threw
    THEN /\ logged' = logged \cup {message}
         /\ NextIteration(f, reqs)
    ELSE /\ pc' = [pc EXCEPT ![f] = "delay"]
         /\ requests' = reqs
         /\ UNCHANGED <<unit, settled, logged>>

LoopResponse_serial(f, resp, t, message) ==
    /\ phase = "awaiting"
    /\ pc[f] = "request"
    /\ \A k \in 1..Len(searchMethods) :
           searchMethods[k] = f => \A j \in 1..(k - 1) : pc[searchMethods[j]] = "done"
    /\ results' = [results EXCEPT ![f] = results[f] \o t.pushed]
    /\ AfterTry(f, [requests EXCEPT ![f][unit[f]] = Status(resp)], t, message)
    /\ UNCHANGED <<phase, returned, call>>

LoopResponse_overwrite(f, resp, t, message) ==
    /\ phase = "awaiting"
    /\ pc[f] = "request"
    /\ results' = [results EXCEPT ![f] = t.pushed]
    /\ AfterTry(f, [requests EXCEPT ![f][unit[f]] = Status(resp)], t, message)
    /\ UNCHANGED <<phase, returned, call>>

\* a fetcher with a loop: the continuation of its await client.get
LoopResponse(f, resp, t, message) ==
    /\ phase = "awaiting"
    /\ pc[f] = "request"
    /\ results' = [results EXCEPT ![f] = results[f] \o t.pushed]
    /\ AfterTry(f, [requests EXCEPT ![f][unit[f]] = Status(resp)], t, message)
    /\ UNCHANGED <<phase, returned, call>>

\* a fetcher with a loop: its setTimeout fires
LoopDelay(f) ==
    /\ phase = "awaiting"
    /\ pc[f] = "delay"
    /\ NextIteration(f, requests)
    /\ UNCHANGED <<phase, results, returned, logged, call>>

RedditResponse ==
    /\ pc["searchRedditArchives"] = "request"
    /\ \E resp \in RedditResponses(unit["searchRedditArchives"]) :
        LET f == "searchRedditArchives"
            subreddit == subreddits[unit[f]]
        IN  LoopResponse(f, resp, RedditOutcome[unit[f]][resp],
                         "Error searching Reddit " \o subreddit \o ":")

\* setTimeout(resolve, 2000)
RedditDelay ==
    /\ pc["searchRedditArchives"] = "delay"
    /\ LoopDelay("searchRedditArchives")

GeneralWebResponse ==
    /\ pc["searchGeneralWeb"] = "request"
    /\ \E resp \in GeneralWebResponses(unit["searchGeneralWeb"]) :
        LET f == "searchGeneralWeb"
            engine == searchEngines[unit[f]]
        IN  LoopResponse(f, resp, GeneralWebOutcome[unit[f]][resp],
                         "Error searching " \o engine.name \o ":")

\* setTimeout(resolve, 3000)
GeneralWebDelay ==
    /\ pc["searchGeneralWeb"] = "delay"
    /\ LoopDelay("searchGeneralWeb")

DigitalLibrariesResponse ==
    /\ pc["searchDigitalLibraries"] = "request"
    /\ \E resp \in DigitalLibrariesResponses(unit["searchDigitalLibraries"]) :
        LET f == "searchDigitalLibraries"
            library == libraries[unit[f]]
        IN  LoopResponse(f, resp, DigitalLibrariesOutcome[unit[f]][resp],
                         "Error searching " \o library.name \o ":")

\* setTimeout(resolve, 2000)
DigitalLibrariesDelay ==
    /\ pc["searchDigitalLibraries"] = "delay"
    /\ LoopDelay("searchDigitalLibraries")

JoinSettled_any == \E f \in Fetchers : settled[f] # "pending"

JoinSettled_timeout == TRUE

\* Promise.all settles: rejected with the first rejection, or resolved once
\* all five have resolved
JoinSettled ==
    \/ \E f \in Fetchers : settled[f] = "rejected"
    \/ \A f \in Fetchers : settled[f] = "resolved"

\* searchAll after its await: flat and deduplicateResults, or its catch
SearchAllJoin ==
    /\ phase = "awaiting"
    /\ JoinSettled
    /\ phase' = "returned"
    /\ IF \E f \in Fetchers : settled[f] = "rejected"
       THEN /\ returned' = <<>>
            /\ logged' = logged \cup {"Error in searchAll:"}
       ELSE /\ returned' = deduplicateResults(Flat(results, 1))
            /\ UNCHANGED logged
    /\ UNCHANGED <<pc, unit, requests, results, settled, call>>

Next ==
    \/ SearchAllStart
    \/ ArchiveOrgResponse
    \/ GoogleBooksResponse
    \/ RedditResponse
    \/ RedditDelay
    \/ GeneralWebResponse
    \/ GeneralWebDelay
    \/ DigitalLibrariesResponse
    \/ DigitalLibrariesDelay
    \/ SearchAllJoin

Spec == Init /\ [][Next]_vars

\* every request settles and every setTimeout fires; the event loop runs each
\* continuation that is ready
Fairness ==
    /\ WF_vars(ArchiveOrgResponse)
    /\ WF_vars(GoogleBooksResponse)
    /\ WF_vars(RedditResponse)
    /\ WF_vars(RedditDelay)
    /\ WF_vars(GeneralWebResponse)
    /\ WF_vars(GeneralWebDelay)
    /\ WF_vars(DigitalLibrariesResponse)
    /\ WF_vars(DigitalLibrariesDelay)
    /\ WF_vars(SearchAllJoin)

FairSpec == Spec /\ Fairness

\* the requests of searchDigitalLibraries may never settle; those of the other
\* four fetchers settle and their delays elapse
FairnessButDigitalLibraries ==
    /\ WF_vars(ArchiveOrgResponse)
    /\ WF_vars(GoogleBooksResponse)
    /\ WF_vars(RedditResponse)
    /\ WF_vars(RedditDelay)
    /\ WF_vars(GeneralWebResponse)
    /\ WF_vars(GeneralWebDelay)

HungSpec == Spec /\ FairnessButDigitalLibraries

(***************************************************************************)
(* Direct calls of verifyMagazineIdentity and extractYear                  *)
(***************************************************************************)
MaxTitleLen == 3
MaxNameLen == 2
MaxTokens == 3

SeqsUpTo(A, n) == UNION {[1..k -> A] : k \in 0..n}

TitleChars == {"a", "A", "b", "-", " "}

Titles == SeqsUpTo(TitleChars, MaxTitleLen) \cup {undefined}

Names == SeqsUpTo(TitleChars, MaxNameLen)

InitVerify ==
    /\ Constructed
    /\ call \in {[fn |-> "verifyMagazineIdentity", arg |-> <<title, name>>,
                  done |-> FALSE, ret |-> FALSE] : title \in Titles, name \in Names}

CallVerifyMagazineIdentity ==
    /\ call.fn = "verifyMagazineIdentity"
    /\ ~call.done
    /\ call' = [call EXCEPT !.done = TRUE,
                            !.ret = verifyMagazineIdentity(call.arg[1], call.arg[2])]
    /\ UNCHANGED <<phase, pc, unit, requests, results, settled, returned, logged>>

SpecVerify == InitVerify /\ [][CallVerifyMagazineIdentity]_vars

YearTokens ==
    { <<"2", "0", "1", "5">>, <<"2", "0", "3", "0">>, <<"1", "9", "9", "8">>,
      <<"2", "0", "0", "0">>, <<"2", "0", "2", "5">>, <<"2", "0", "2", "6">>,
      <<"2", "0">>, <<" ">>, <<"a">>, <<"-">> }

RECURSIVE Concat(_)
Concat(ss) == IF ss = <<>> THEN <<>> ELSE Head(ss) \o Concat(Tail(ss))

YearTexts == {Concat(ts) : ts \in SeqsUpTo(YearTokens, MaxTokens)}

InitYear ==
    /\ Constructed
    /\ call \in {[fn |-> "extractYear", arg |-> text, done |-> FALSE, ret |-> <<>>] :
                    text \in YearTexts}

CallExtractYear ==
    /\ call.fn = "extractYear"
    /\ ~call.done
    /\ call' = [call EXCEPT !.done = TRUE, !.ret = extractYear(call.arg)]
    /\ UNCHANGED <<phase, pc, unit, requests, results, settled, returned, logged>>

SpecYear == InitYear /\ [][CallExtractYear]_vars

(***************************************************************************)
(* Properties                                                              *)
(***************************************************************************)
LoopFetchers == {"searchRedditArchives", "searchDigitalLibraries", "searchGeneralWeb"}

Emitted(f) == Range(results[f])

AllFailed(f) == \A i \in 1..NumUnits(f) : requests[f][i] = "failed"

FirstIndexOf(rs, url) == Min({k \in 1..Len(rs) : rs[k].url = url})

\* C1: what searchAll returns holds exactly one record for each url of the
\* flattened lists, that record is the first of its url in flatten order, and
\* no two returned records share a url.
C1_DedupKeepsFirstOfEachUrl ==
    phase = "returned" =>
        LET all == Flat(results, 1)
        IN  /\ Urls(returned) = Urls(all)
            /\ \A i, j \in 1..Len(returned) :
                   returned[i].url = returned[j].url => i = j
            /\ \A i \in 1..Len(returned) :
                   returned[i] = all[FirstIndexOf(all, returned[i].url)]

\* two records of one url and different titles went in, one came out
C1_Witness ==
    /\ phase = "returned"
    /\ \E i, j \in 1..Len(Flat(results, 1)) :
           /\ i < j
           /\ Flat(results, 1)[i].url = Flat(results, 1)[j].url
           /\ Flat(results, 1)[i].title # Flat(results, 1)[j].title
           /\ Flat(results, 1)[i] \in Range(returned)
           /\ Flat(results, 1)[j] \notin Range(returned)

\* C2: when every request of one fetcher failed, that fetcher's list is empty
\* and searchAll still returns a record for every url that the other four
\* emitted; what it returns is made of their records only.
C2_OneFetcherFailingLosesNothing ==
    phase = "returned" =>
        \A f \in Fetchers :
            AllFailed(f) =>
                /\ results[f] = <<>>
                /\ \A g \in Fetchers \ {f} : Urls(results[g]) \subseteq Urls(returned)
                /\ Range(returned) \subseteq UNION {Emitted(g) : g \in Fetchers \ {f}}

\* the loop of one fetcher failed four times and the others' records came back
C2_Witness ==
    /\ phase = "returned"
    /\ AllFailed("searchDigitalLibraries")
    /\ \A g \in Fetchers \ {"searchDigitalLibraries"} :
           /\ ~AllFailed(g)
           /\ results[g] # <<>>
    /\ returned # <<>>

\* C3: no fetcher's promise rejects and each fetcher that is done has resolved
\* with its list; searchAll never takes its catch, is never stuck before it
\* returns, and returns the empty list when every request of every fetcher
\* failed.
C3_NothingThrowsOutward ==
    /\ \A f \in Fetchers :
           /\ settled[f] # "rejected"
           /\ pc[f] = "done" => settled[f] = "resolved"
    /\ "Error in searchAll:" \notin logged
    /\ phase # "returned" => ENABLED Next
    /\ (phase = "returned" /\ \A f \in Fetchers : AllFailed(f)) => returned = <<>>

\* every request of every fetcher failed, each catch logged, searchAll returned
C3_Witness ==
    /\ phase = "returned"
    /\ \A f \in Fetchers : AllFailed(f) /\ settled[f] = "resolved"
    /\ Cardinality(logged) = 12
    /\ returned = <<>>

\* C4: the title of every record a fetcher has emitted, and of every record
\* searchAll returns, passes verifyMagazineIdentity for the name searched for.
C4_EmittedTitlesVerified ==
    /\ \A f \in Fetchers : \A r \in Emitted(f) :
           verifyMagazineIdentity(r.title, magazine_name)
    /\ \A r \in Range(returned) : verifyMagazineIdentity(r.title, magazine_name)

\* archive.org answered four docs, the stranger among them, and three came out
C4_Witness ==
    /\ requests["searchArchiveOrg"][1] = "ok"
    /\ Len(results["searchArchiveOrg"]) = 3
    /\ Url("https", "archive.org", TRUE, <<"details", "ut">>)
           \notin Urls(results["searchArchiveOrg"])
    /\ phase = "returned"
    /\ returned # <<>>

\* C5: the url of every record a fetcher has emitted is an absolute URL.
C5_EmittedUrlsAbsolute ==
    \A f \in Fetchers : \A r \in Emitted(f) : IsAbsoluteUrl(r.url)

YearOk(year) ==
    year = Unknown \/ (ParseInt(year) >= YearMin /\ ParseInt(year) <= YearMax)

\* C6: the year of every record a fetcher has emitted is "Unknown" or within
\* [2000, 2025].
C6_EmittedYearsInRange ==
    \A f \in Fetchers : \A r \in Emitted(f) : YearOk(r.year)

ExtractingFetchers == {"searchGoogleBooks", "searchDigitalLibraries", "searchGeneralWeb"}

\* C6, amended: the year of every record emitted by a fetcher that takes it
\* from extractYear (Google Books, the digital libraries, the general web) is
\* "Unknown" or within [2000, 2025]; archive.org's is the source's year field
\* or "Unknown", unchecked, and Reddit's the year of the creation time.
C6_ExtractedYearsInRange ==
    /\ \A f \in ExtractingFetchers : \A r \in Emitted(f) : YearOk(r.year)
    /\ \A r \in Emitted("searchGoogleBooks") : r.year # Unknown

\* a text with 2030 before 2015 gave "Unknown", a date of 2015 gave 2015, and
\* Google Books dropped its items of 1998 and of no date
C6_Witness ==
    /\ \E r \in Emitted("searchGeneralWeb") :
           r.description = <<"2", "0", "3", "0", " ", "2", "0", "1", "5">>
           /\ r.year = Unknown
    /\ \E r \in Emitted("searchDigitalLibraries") : r.year = <<"2", "0", "1", "5">>
    /\ Len(results["searchGoogleBooks"]) = 3

\* C7: in the fetchers with a loop, when a request settles, with a response or
\* with a failure, the fetcher is next in its pacing delay; and a request
\* after the first is issued only out of the delay.
C7_DelayAfterEveryRequest ==
    [][\A f \in LoopFetchers :
          /\ (pc[f] = "request" /\ requests'[f][unit[f]] \in {"ok", "failed"})
                 => pc'[f] = "delay"
          /\ unit'[f] = unit[f] + 1 /\ unit[f] >= 1 => pc[f] = "delay"]_vars

\* C8: in the fetchers with a loop at most one request is pending at a time,
\* and the request of an entry is issued only once the request of the entry
\* before it has settled.
C8_RequestsSequential ==
    \A f \in LoopFetchers :
        /\ Cardinality({i \in 1..NumUnits(f) : requests[f][i] = "pending"}) <= 1
        /\ \A i \in 2..NumUnits(f) :
               requests[f][i] # "none" => requests[f][i - 1] \in {"ok", "failed"}
        /\ pc[f] = "request" <=>
               \E i \in 1..NumUnits(f) : i = unit[f] /\ requests[f][i] = "pending"

\* the third subreddit is being asked after one answer and one failure
C8_Witness ==
    /\ requests["searchRedditArchives"] = <<"ok", "failed", "pending", "none">>
    /\ requests["searchDigitalLibraries"][4] = "pending"

\* a character lowercased, by the place of its letter in the alphabet
LowerCased(c) ==
    IF \E i \in 1..26 : Upper[i] = c
    THEN Lower[CHOOSE i \in 1..26 : Upper[i] = c]
    ELSE c

\* a string lowercased and without what is neither word character nor space
Cleaned(s) ==
    SelectSeq([i \in 1..Len(s) |-> LowerCased(s[i])],
              LAMBDA c : IsWordChar(c) \/ IsSpace(c))

\* C9: verifyMagazineIdentity(candidate, target) is true exactly when the
\* candidate is not empty and the cleaned candidate is the cleaned target or
\* has it as a substring; it is true of (x, x) for x not empty and false of
\* the empty candidate.
C9_VerifyIsCleanedSubstring ==
    (call.fn = "verifyMagazineIdentity" /\ call.done) =>
        LET candidate == call.arg[1]
            target    == call.arg[2]
            given     == candidate # undefined /\ Len(candidate) > 0
        IN  /\ call.ret <=>
                  /\ given
                  /\ \E c \in {Cleaned(candidate)}, t \in {Cleaned(target)} :
                         \E p, q \in 0..Len(c) : SubSeq(c, p + 1, q) = t
            /\ (given /\ candidate = target) => call.ret
            /\ candidate = <<>> => ~call.ret

\* "A-b" was accepted for "ab"
C9_Witness ==
    /\ call.fn = "verifyMagazineIdentity"
    /\ call.done
    /\ call.arg = << <<"A", "-", "b">>, <<"a", "b">> >>
    /\ call.ret = TRUE

\* the places of the 4-digit numbers between word boundaries whose value is
\* within [2000, 2025]
InRangePlaces(text) ==
    {i \in 1..(Len(text) - 3) :
        /\ \A k \in 0..3 : IsDigit(text[i + k])
        /\ i = 1 \/ ~IsWordChar(text[i - 1])
        /\ i + 4 > Len(text) \/ ~IsWordChar(text[i + 4])
        /\ ParseInt(SubSeq(text, i, i + 3)) >= YearMin
        /\ ParseInt(SubSeq(text, i, i + 3)) <= YearMax}

\* C10: extractYear(text) is the first 4-digit number of the text within
\* [2000, 2025] when the text holds one, and "Unknown" when it holds none.
C10_ExtractYearFindsFirstInRange ==
    (call.fn = "extractYear" /\ call.done) =>
        IF InRangePlaces(call.arg) # {}
        THEN call.ret = SubSeq(call.arg, Min(InRangePlaces(call.arg)),
                               Min(InRangePlaces(call.arg)) + 3)
        ELSE call.ret = Unknown

\* the source field of the records of entry i of a fetcher's list
UnitSource(f, i) ==
    CASE f = "searchRedditArchives"   -> "reddit/r/" \o subreddits[i]
      [] f = "searchDigitalLibraries" -> libraries[i].name
      [] f = "searchGeneralWeb"       -> searchEngines[i].name

\* what the catch of entry i of a fetcher's list, or of a fetcher of one
\* request, logs
UnitMessage(f, i) ==
    CASE f = "searchRedditArchives"   -> "Error searching Reddit " \o subreddits[i] \o ":"
      [] f = "searchDigitalLibraries" -> "Error searching " \o libraries[i].name \o ":"
      [] f = "searchGeneralWeb"       -> "Error searching " \o searchEngines[i].name \o ":"
      [] f = "searchArchiveOrg"       -> "Error searching archive.org:"
      [] f = "searchGoogleBooks"      -> "Error searching Google Books:"

\* C11: in the fetchers with a loop, an entry whose try block threw (its catch
\* has logged) has no record in the fetcher's list.
C11_ThrowingUnitContributesNothing ==
    \A f \in LoopFetchers : \A i \in 1..NumUnits(f) :
        UnitMessage(f, i) \in logged =>
            \A r \in Emitted(f) : r.source # UnitSource(f, i)

\* C12: once searchAll is awaiting, every fetcher has issued its first request;
\* nothing is returned before the join; and when searchAll has returned, every
\* fetcher is done and its promise resolved.
C12_JoinAfterAllSettled ==
    /\ phase # "constructed" =>
           \A f \in Fetchers : pc[f] # "idle" /\ requests[f][1] # "none"
    /\ phase # "returned" => returned = <<>>
    /\ phase = "returned" =>
           \A f \in Fetchers : pc[f] = "done" /\ settled[f] = "resolved"

\* searchAll returned records of all five fetchers, each of which had finished
C12_Witness ==
    /\ phase = "returned"
    /\ \A f \in Fetchers : pc[f] = "done" /\ results[f] # <<>>
    /\ \A f \in Fetchers : \E r \in Range(returned) : r \in Emitted(f)

\* the place in searchMethods of the first fetcher whose list holds the url
FirstFetcherOf(url) ==
    Min({i \in 1..Len(searchMethods) : url \in Urls(results[searchMethods[i]])})

\* the page of wm12 at archive.org, which three fetchers may emit
Wm12Url == Url("https", "archive.org", TRUE, <<"details", "wm12">>)

\* C13: of two records with the same url, the one of the fetcher that completed
\* first survives: once the digital libraries are done while archive.org is
\* not, no record of archive.org whose url a record of the digital libraries
\* has is ever returned.
C13_SurvivorByCompletionOrder ==
    [](pc["searchDigitalLibraries"] = "done" /\ pc["searchArchiveOrg"] # "done" =>
          [](phase = "returned" =>
                \A r \in Emitted("searchDigitalLibraries") :
                    \A q \in Emitted("searchArchiveOrg") :
                        r.url = q.url => q \notin Range(returned)))

\* C13, amended: of the records with the same url, the one that survives is
\* the first record of the fetcher earliest in searchMethods that emitted the
\* url, and the returned records follow the order of searchMethods, whatever
\* the order in which the fetchers completed.
C13_SurvivorBySearchMethodsOrder ==
    phase = "returned" =>
        /\ \A k \in 1..Len(returned) :
               LET rs == results[searchMethods[FirstFetcherOf(returned[k].url)]]
               IN  returned[k] = rs[FirstIndexOf(rs, returned[k].url)]
        /\ \A j, k \in 1..Len(returned) :
               j < k => FirstFetcherOf(returned[j].url) <= FirstFetcherOf(returned[k].url)

\* archive.org, Google Books, the digital libraries and the general web each
\* emitted the page of wm12, and the record of archive.org came back
C13_Witness ==
    /\ phase = "returned"
    /\ \A f \in Fetchers \ {"searchRedditArchives"} : Wm12Url \in Urls(results[f])
    /\ \A r \in Range(returned) : r.url = Wm12Url => r.source = "archive.org"
    /\ Wm12Url \in Urls(returned)

\* what entry i of a fetcher's list pushed, given only how its request ended
PushedBy(f, i, status) ==
    IF status \notin {"ok", "failed"} THEN <<>>
    ELSE CASE f = "searchRedditArchives" ->
                RedditOutcome[i][IF status = "ok" THEN Ok(RedditOk(i))
                                 ELSE Failed(RedditData(TRUE, FALSE, <<>>))].pushed
           [] f = "searchDigitalLibraries" ->
                DigitalLibrariesOutcome[i][IF status = "ok" THEN Ok(DigitalLibrariesOk(i))
                                           ELSE Failed(Html(<<>>))].pushed
           [] f = "searchGeneralWeb" ->
                GeneralWebOutcome[i][IF status = "ok" THEN Ok(GeneralWebOk(i))
                                     ELSE Failed(Html(<<>>))].pushed

\* C14: the urls searchAll returns are the union of the urls the five fetchers
\* emitted; and what a fetcher has emitted is given by the answers to its own
\* requests alone, whatever the other fetchers have done meanwhile.
C14_OutputUrlsAreUnionOfEmitted ==
    /\ phase = "returned" =>
           Urls(returned) = UNION {Urls(results[f]) : f \in Fetchers}
    /\ \A f \in LoopFetchers :
           results[f] = Concat([i \in 1..NumUnits(f) |-> PushedBy(f, i, requests[f][i])])
    /\ results["searchArchiveOrg"] \in
           IF pc["searchArchiveOrg"] # "done" THEN {<<>>}
           ELSE {CatchAll(ArchiveOrgOutcome[resp]).value :
                    resp \in {a \in ArchiveOrgResponses :
                                 Status(a) = requests["searchArchiveOrg"][1]}}
    /\ results["searchGoogleBooks"] \in
           IF pc["searchGoogleBooks"] # "done" THEN {<<>>}
           ELSE {CatchAll(GoogleBooksOutcome[resp]).value :
                    resp \in {a \in GoogleBooksResponses :
                                 Status(a) = requests["searchGoogleBooks"][1]}}

\* every request was answered, the fetchers emitted some urls more than once
\* between them, and searchAll returned one record for each url
C14_Witness ==
    /\ phase = "returned"
    /\ \A f \in Fetchers : \A i \in 1..NumUnits(f) : requests[f][i] = "ok"
    /\ Len(returned) < Len(Flat(results, 1))
    /\ Cardinality(Urls(returned)) = Len(returned)

\* all requests of a fetcher have been issued and have settled, and it is done
Completes(f) ==
    /\ pc[f] = "done"
    /\ settled[f] = "resolved"
    /\ \A i \in 1..NumUnits(f) : requests[f][i] \in {"ok", "failed"}

\* C15: while searchAll is awaiting, a fetcher that awaits a response or a
\* delay can take its next step whatever the other fetchers are doing; and
\* when the requests of searchDigitalLibraries may never settle, the other
\* four fetchers still issue all their requests and complete.
C15_HungRequestStallsOnlyItsFetcher ==
    /\ [](phase = "awaiting" =>
             /\ pc["searchArchiveOrg"] = "request" => ENABLED ArchiveOrgResponse
             /\ pc["searchGoogleBooks"] = "request" => ENABLED GoogleBooksResponse
             /\ pc["searchRedditArchives"] = "request" => ENABLED RedditResponse
             /\ pc["searchRedditArchives"] = "delay" => ENABLED RedditDelay
             /\ pc["searchDigitalLibraries"] = "request" => ENABLED DigitalLibrariesResponse
             /\ pc["searchDigitalLibraries"] = "delay" => ENABLED DigitalLibrariesDelay
             /\ pc["searchGeneralWeb"] = "request" => ENABLED GeneralWebResponse
             /\ pc["searchGeneralWeb"] = "delay" => ENABLED GeneralWebDelay)
    /\ (phase = "awaiting") ~>
           (\A g \in Fetchers \ {"searchDigitalLibraries"} : Completes(g))

\* the first request of searchDigitalLibraries is still pending when the other
\* four fetchers have completed with records; searchAll is still awaiting
C15_Witness ==
    /\ phase = "awaiting"
    /\ requests["searchDigitalLibraries"] = <<"pending", "none", "none", "none">>
    /\ \A g \in Fetchers \ {"searchDigitalLibraries"} : Completes(g) /\ results[g] # <<>>

\* C16: the request of a unit is issued only if it was never issued before;
\* once it has settled, with an answer or a failure, it stays as it settled;
\* a unit whose catch has logged is not being requested again; and when
\* searchAll returns, the request of every unit has been issued and has
\* settled.
C16_EachUnitRequestedOnce ==
    [][\A f \in Fetchers : \A i \in 1..NumUnits(f) :
          /\ requests[f][i] \in {"ok", "failed"} => requests'[f][i] = requests[f][i]
          /\ (requests'[f][i] = "pending" /\ requests[f][i] # "pending")
                 => requests[f][i] = "none"
          /\ UnitMessage(f, i) \in logged' => requests'[f][i] \in {"ok", "failed"}
          /\ phase' = "returned" => requests'[f][i] \in {"ok", "failed"}]_vars

\* searchAll returned after requests that failed, among them the first of the
\* digital libraries and the second of Reddit, were passed over
C16_Witness ==
    /\ phase = "returned"
    /\ requests["searchDigitalLibraries"] = <<"failed", "ok", "failed", "ok">>
    /\ requests["searchRedditArchives"] = <<"ok", "failed", "ok", "ok">>
    /\ requests["searchArchiveOrg"] = <<"failed">>
    /\ UnitMessage("searchDigitalLibraries", 1) \in logged

\* the items Google Books answers with
AnsweredItems == (CHOOSE resp \in GoogleBooksResponses : resp.kind = "ok").data.items

\* the items with a title that names the magazine and a date with a year in it
DatedItems ==
    {k \in 1..Len(AnsweredItems) :
        /\ AnsweredItems[k].hasVolumeInfo
        /\ Truthy(AnsweredItems[k].title)
        /\ verifyMagazineIdentity(AnsweredItems[k].title, magazine_name)
        /\ extractYear(OrElse(AnsweredItems[k].publishedDate, <<>>)) # Unknown}

\* the containers of a page up to the first whose link new URL cannot parse
Parsable(elements) ==
    {k \in 1..Len(elements) :
        \A j \in 1..k :
            (Truthy(Trim(elements[j].title))
                /\ verifyMagazineIdentity(Trim(elements[j].title), magazine_name))
            => ~UrlThrows(elements[j].href)}

\* the titles and years searchGoogleBooks is to emit: those of the dated items
DatedRecords ==
    {<<AnsweredItems[k].title, extractYear(AnsweredItems[k].publishedDate)>> :
        k \in DatedItems}

\* by library site, the titles of the containers with a verified title, a link
\* that parses and a text without an extractable year
UndatedInLibrary ==
    [i \in 1..Len(libraries) |->
        LET elements == DigitalLibrariesOk(i).elements
        IN  {Trim(elements[k].title) : k \in
                {k \in Parsable(elements) :
                    /\ Truthy(Trim(elements[k].title))
                    /\ verifyMagazineIdentity(Trim(elements[k].title), magazine_name)
                    /\ extractYear(ElementText(elements[k])) = Unknown}}]

\* by search engine, the titles of the containers with a verified title, a
\* link, and a title and description without an extractable year
UndatedInEngine ==
    [i \in 1..Len(searchEngines) |->
        LET elements == GeneralWebOk(i).elements
        IN  {Trim(elements[k].title) : k \in
                {k \in 1..Len(elements) :
                    /\ Truthy(Trim(elements[k].title))
                    /\ elements[k].href # EmptyUrl
                    /\ verifyMagazineIdentity(Trim(elements[k].title), magazine_name)
                    /\ extractYear(Trim(elements[k].title) \o <<" ">>
                                      \o Trim(elements[k].description)) = Unknown}}]

\* C17: searchGoogleBooks emits exactly the answered items whose title is
\* verified and whose published date has an extractable year, so none of its
\* records has year "Unknown"; searchDigitalLibraries and searchGeneralWeb
\* emit a container with a verified title (and a link that parses, or a link,
\* respectively) whose text has no extractable year, with year "Unknown".
C17_UnknownYearDroppedOnlyByGoogleBooks ==
    /\ \A r \in Emitted("searchGoogleBooks") : r.year # Unknown
    /\ requests["searchGoogleBooks"][1] = "ok" /\ pc["searchGoogleBooks"] = "done" =>
           /\ Len(results["searchGoogleBooks"]) = Cardinality(DatedItems)
           /\ {<<r.title, r.year>> : r \in Emitted("searchGoogleBooks")} = DatedRecords
    /\ \A i \in 1..Len(libraries) :
           requests["searchDigitalLibraries"][i] = "ok" =>
               \A title \in UndatedInLibrary[i] :
                   \E r \in Emitted("searchDigitalLibraries") :
                       r.source = libraries[i].name /\ r.title = title /\ r.year = Unknown
    /\ \A i \in 1..Len(searchEngines) :
           requests["searchGeneralWeb"][i] = "ok" =>
               \A title \in UndatedInEngine[i] :
                   \E r \in Emitted("searchGeneralWeb") :
                       r.source = searchEngines[i].name /\ r.title = title /\ r.year = Unknown

\* Google Books answered six items and three came out, those without a year
\* dropped; a library site and a search engine each emitted a record of year
\* "Unknown"
C17_Witness ==
    /\ requests["searchGoogleBooks"][1] = "ok"
    /\ Len(AnsweredItems) = 6
    /\ Len(results["searchGoogleBooks"]) = 3
    /\ \E r \in Emitted("searchDigitalLibraries") : r.year = Unknown
    /\ \E r \in Emitted("searchGeneralWeb") : r.year = Unknown
    /\ \E i \in 1..Len(libraries) : UndatedInLibrary[i] # {}
    /\ \E i \in 1..Len(searchEngines) : UndatedInEngine[i] # {}

\* a is b with some of its elements left out, the others in b's order
RECURSIVE IsSubsequence(_, _)
IsSubsequence(a, b) ==
    IF a = <<>> THEN TRUE
    ELSE IF b = <<>> THEN FALSE
    ELSE IF Head(a) = Head(b) THEN IsSubsequence(Tail(a), Tail(b))
    ELSE IsSubsequence(a, Tail(b))

\* C18: what searchAll returns is the flattened lists of the fetchers with
\* some records left out, the others in order; every returned record is, in
\* all of its five fields, a record that a fetcher emitted.
C18_AggregationOnlyDrops ==
    phase = "returned" =>
        /\ IsSubsequence(returned, Flat(results, 1))
        /\ \A r \in Range(returned) : \E f \in Fetchers : \E e \in Emitted(f) :
               /\ r.source = e.source
               /\ r.title = e.title
               /\ r.year = e.year
               /\ r.url = e.url
               /\ r.description = e.description

\* records were dropped, and a record with a description came back as it was
C18_Witness ==
    /\ phase = "returned"
    /\ Len(returned) >= 2
    /\ Len(returned) < Len(Flat(results, 1))
    /\ \E r \in Range(returned) : r.description # <<>> /\ r \in Emitted("searchGeneralWeb")

\* C19: once searchAll is called, if every request settles and every delay
\* elapses, searchAll returns; and it has not returned while any request is
\* still pending or not yet issued.
C19_ReturnsIffAllSettle ==
    /\ (phase = "awaiting") ~> (phase = "returned")
    /\ [](phase = "returned" =>
             \A f \in Fetchers : \A i \in 1..NumUnits(f) :
                 requests[f][i] \in {"ok", "failed"})

\* searchAll returned after every subreddit and every search engine had
\* answered and every delay had elapsed, the library sites having failed
C19_Witness ==
    /\ phase = "returned"
    /\ \A i \in 1..Len(subreddits) : requests["searchRedditArchives"][i] = "ok"
    /\ \A i \in 1..Len(searchEngines) : requests["searchGeneralWeb"][i] = "ok"
    /\ \A i \in 1..Len(libraries) : requests["searchDigitalLibraries"][i] = "failed"
    /\ returned # <<>>

\* C20: the join of the five promises never rejects; the catch of searchAll
\* never logs; and what searchAll returns is not the empty list of its catch
\* when a fetcher had emitted a record.
C20_TopLevelCatchUnreachable ==
    /\ (phase = "awaiting" /\ JoinSettled) => \A f \in Fetchers : settled[f] = "resolved"
    /\ "Error in searchAll:" \notin logged
    /\ (phase = "returned" /\ \E f \in Fetchers : results[f] # <<>>) => returned # <<>>

\* archive.org failed, a library page threw part-way and a child of a Reddit
\* listing had no data; each catch logged and searchAll returned records
C20_Witness ==
    /\ phase = "returned"
    /\ UnitMessage("searchArchiveOrg", 1) \in logged
    /\ UnitMessage("searchDigitalLibraries", 3) \in logged
    /\ requests["searchDigitalLibraries"][3] = "ok"
    /\ UnitMessage("searchRedditArchives", 3) \in logged
    /\ requests["searchRedditArchives"][3] = "ok"
    /\ returned # <<>>

====
